---- MODULE Spec2Model ----
(***************************************************************************)
(* The TimeBank ledger of habitgate-mobile: the zustand store              *)
(* useTimeBankStore in its two variants (src/store/timeBankStore.ts, with  *)
(* no spending cap, and src/store/authStore.ts lines 102-258, with a daily *)
(* spending cap and streaks) and LocalTimeBankService                      *)
(* (src/services/timebankService.ts) on top of it.                         *)
(*                                                                         *)
(* Calendar dates are day numbers: the code only compares the "YYYY-MM-DD" *)
(* strings for equality.  The wall clock is a local day and a phase; in    *)
(* one of the two phases of a day the UTC date differs from the local date *)
(* by one day when the time zone is not UTC.                               *)
(***************************************************************************)
EXTENDS Integers, Sequences, FiniteSets, TLC

VARIABLES
    variant,      \* which store build runs: "uncapped" or "capped"
    tz,           \* time zone of the device: "west", "utc" or "east"
    clock,        \* [day, phase]: local calendar day and half of that day
    store,        \* the zustand state (TimeBankState)
    nextId,       \* stands for uuidv4(): the next fresh transaction id
    call,         \* the last operation invoked, with its arguments; "newDay"
                  \* while none was invoked yet on this local day
    ret,          \* what the last operation returned
    writes,       \* the states the last operation handed to set(), in order:
                  \* each is seen by the subscribers and saved
    durable,      \* the durable store: << >> or the one snapshot saved last
    pending,      \* the service calls issued together and not yet awaited:
                  \* the state they started from and, for each call, how far
                  \* its body has run, the state it has read and its result
    seedLen,      \* number of transactions of the scripted first session
    earnedToday,  \* history: minutes credited by addBalance this local day
    rolledOn,     \* history: local day of the last daily rollover (0: none)
    streakRun,    \* history: consecutive days with updateStreak(true) and only
                  \* store addBalance/deductBalance/getRemainingDailyCapacity
                  \* besides; -1 once that run is broken
    doneToday     \* history: updateStreak(true) was called this local day

vars == <<variant, tz, clock, store, nextId, call, ret, writes, durable,
          pending, seedLen, earnedToday, rolledOn, streakRun, doneToday>>

----------------------------------------------------------------------------
(* Program constants *)

DAILY_EARNING_CAP == 180
MAX_BALANCE == 480
MIN_BALANCE == -60
DAILY_SPENDING_CAP == 120
LOG_LIMIT == 50

(* Bounds of the model *)

MaxDay == 3
MaxTx == 3
MaxStreak == 3
LogSeed == 48
Amounts == {30, 200}
SpendAmounts == {100}
EarnSources == {"habit"}
SpendSources == {"app_unlock"}
Limits == {0, 2}
InvalidAmounts == {-30, 0}
SmallSpendAmounts == {20, 60}
SpendSeed == 2
BatchSize == 2

Min(a, b) == IF a < b THEN a ELSE b
Abs(a) == IF a < 0 THEN -a ELSE a
Max(a, b) == IF a > b THEN a ELSE b

----------------------------------------------------------------------------
(* Clock *)

\* new Date().toLocaleDateString("en-CA"): the local calendar date
toLocaleDateString(c) == c.day

\* new Date().toISOString().split("T")[0]: the UTC calendar date.  East of
\* UTC the UTC date is still yesterday in the first part of the local day;
\* west of UTC it is already tomorrow in the last part of the local day.
toISOStringDate(c, zone) ==
    CASE zone = "east" /\ c.phase = 0 -> c.day - 1
      [] zone = "west" /\ c.phase = 1 -> c.day + 1
      [] OTHER -> c.day

Today == toLocaleDateString(clock)
UtcToday == toISOStringDate(clock, tz)

----------------------------------------------------------------------------
(* Initial snapshot *)

INITIAL_TIME_BANK_STATE(utcDate) ==
    [ balance        |-> 45,
      lifetimeEarned |-> 2450,
      lifetimeSpent  |-> 680,
      dailyEarned    |-> 50,
      lastResetDate  |-> utcDate,
      transactions   |-> << >> ]

\* fields of the capped variant's snapshot, which src/data/timebank.ts lacks
INITIAL_EXTRA_FIELDS ==
    [ dailySpent |-> 0, currentStreak |-> 0, longestStreak |-> 0 ]

InitialStore(utcDate) ==
    LET a == INITIAL_TIME_BANK_STATE(utcDate)
        b == INITIAL_EXTRA_FIELDS
    IN  [ balance        |-> a.balance,
          lifetimeEarned |-> a.lifetimeEarned,
          lifetimeSpent  |-> a.lifetimeSpent,
          dailyEarned    |-> a.dailyEarned,
          dailySpent     |-> b.dailySpent,
          lastResetDate  |-> a.lastResetDate,
          currentStreak  |-> b.currentStreak,
          longestStreak  |-> b.longestStreak,
          transactions   |-> a.transactions ]

----------------------------------------------------------------------------
(* Store operations, as functions from the state read by get() to the      *)
(* state left by the last set() and the value returned.                    *)

\* mutant: the slice(0, 50) is forgotten
Prepend_NoSlice(transaction, transactions) ==
    <<transaction>> \o transactions

\* [transaction, ...state.transactions].slice(0, 50)
Prepend(transaction, transactions) ==
    LET all == <<transaction>> \o transactions
    IN  SubSeq(all, 1, Min(Len(all), LOG_LIMIT))

\* mutant: the check of the remaining capacity is missing
addBalance_NoCapCheck(st, amount, source, today, id) ==
    LET state == IF st.lastResetDate # today
                 THEN [st EXCEPT !.dailyEarned = 0, !.lastResetDate = today]
                 ELSE st
        remainingCapacity == DAILY_EARNING_CAP - state.dailyEarned
        cappedAmount == Min(amount, remainingCapacity)
        newDailyEarned == state.dailyEarned + cappedAmount
        newBalance == state.balance + cappedAmount
        transaction == [ id |-> id, type |-> "earn", amount |-> cappedAmount,
                         balanceAfter |-> newBalance, sourceType |-> source ]
    IN  [st |-> [state EXCEPT
                    !.balance = newBalance,
                    !.lifetimeEarned = state.lifetimeEarned + cappedAmount,
                    !.dailyEarned = newDailyEarned,
                    !.transactions = Prepend(transaction, state.transactions)],
         ret |-> TRUE]

\* mutant: the requested amount is credited, not the capped amount
addBalance_Uncapped(st, amount, source, today, id) ==
    LET state == IF st.lastResetDate # today
                 THEN [st EXCEPT !.dailyEarned = 0, !.lastResetDate = today]
                 ELSE st
        remainingCapacity == DAILY_EARNING_CAP - state.dailyEarned
        newBalance == state.balance + amount
        transaction == [ id |-> id, type |-> "earn", amount |-> amount,
                         balanceAfter |-> newBalance, sourceType |-> source ]
    IN  IF remainingCapacity <= 0
        THEN [st |-> state, ret |-> FALSE]
        ELSE [st |-> [state EXCEPT
                        !.balance = newBalance,
                        !.lifetimeEarned = state.lifetimeEarned + amount,
                        !.dailyEarned = state.dailyEarned + amount,
                        !.transactions = Prepend(transaction, state.transactions)],
              ret |-> TRUE]

addBalance(st, amount, source, today, id) ==
    LET state == IF st.lastResetDate # today
                 THEN [st EXCEPT !.dailyEarned = 0, !.lastResetDate = today]
                 ELSE st
        remainingCapacity == DAILY_EARNING_CAP - state.dailyEarned
        cappedAmount == Min(amount, remainingCapacity)
        newDailyEarned == state.dailyEarned + cappedAmount
        newBalance == state.balance + cappedAmount
        transaction == [ id |-> id, type |-> "earn", amount |-> cappedAmount,
                         balanceAfter |-> newBalance, sourceType |-> source ]
    IN  IF remainingCapacity <= 0
        THEN [st |-> state, ret |-> FALSE]
        ELSE [st |-> [state EXCEPT
                        !.balance = newBalance,
                        !.lifetimeEarned = state.lifetimeEarned + cappedAmount,
                        !.dailyEarned = newDailyEarned,
                        !.transactions = Prepend(transaction, state.transactions)],
              ret |-> TRUE]

\* mutant: the insufficient-balance check is missing
deductBalance_NoCheck(st, amount, source, id) ==
    LET newBalance == st.balance - amount
        transaction == [ id |-> id, type |-> "spend", amount |-> amount,
                         balanceAfter |-> newBalance, sourceType |-> source ]
    IN  [st |-> [st EXCEPT
                    !.balance = newBalance,
                    !.lifetimeSpent = st.lifetimeSpent + amount,
                    !.transactions = Prepend(transaction, st.transactions)],
         ret |-> TRUE]

\* mutant: the spend is not added to lifetimeSpent
deductBalance_NoLifetime(st, amount, source, id) ==
    LET newBalance == st.balance - amount
        transaction == [ id |-> id, type |-> "spend", amount |-> amount,
                         balanceAfter |-> newBalance, sourceType |-> source ]
    IN  IF st.balance < amount
        THEN [st |-> st, ret |-> FALSE]
        ELSE [st |-> [st EXCEPT
                        !.balance = newBalance,
                        !.transactions = Prepend(transaction, st.transactions)],
              ret |-> TRUE]

\* src/store/timeBankStore.ts
deductBalance(st, amount, source, id) ==
    LET newBalance == st.balance - amount
        transaction == [ id |-> id, type |-> "spend", amount |-> amount,
                         balanceAfter |-> newBalance, sourceType |-> source ]
    IN  IF st.balance < amount
        THEN [st |-> st, ret |-> FALSE]
        ELSE [st |-> [st EXCEPT
                        !.balance = newBalance,
                        !.lifetimeSpent = st.lifetimeSpent + amount,
                        !.transactions = Prepend(transaction, st.transactions)],
              ret |-> TRUE]

\* mutant: the requested amount is deducted, not the capped amount
deductBalanceCapped_Uncapped(st, amount, source, id) ==
    LET remainingSpendingCapacity == DAILY_SPENDING_CAP - st.dailySpent
        newBalance == st.balance - amount
        transaction == [ id |-> id, type |-> "spend", amount |-> amount,
                         balanceAfter |-> newBalance, sourceType |-> source ]
    IN  IF st.balance < amount
        THEN [st |-> st, ret |-> FALSE]
        ELSE IF remainingSpendingCapacity <= 0
        THEN [st |-> st, ret |-> FALSE]
        ELSE [st |-> [st EXCEPT
                        !.balance = newBalance,
                        !.lifetimeSpent = st.lifetimeSpent + amount,
                        !.dailySpent = st.dailySpent + amount,
                        !.transactions = Prepend(transaction, st.transactions)],
              ret |-> TRUE]

\* src/store/authStore.ts
deductBalanceCapped(st, amount, source, id) ==
    LET remainingSpendingCapacity == DAILY_SPENDING_CAP - st.dailySpent
        cappedAmount == Min(amount, remainingSpendingCapacity)
        newBalance == st.balance - cappedAmount
        transaction == [ id |-> id, type |-> "spend", amount |-> cappedAmount,
                         balanceAfter |-> newBalance, sourceType |-> source ]
    IN  IF st.balance < amount
        THEN [st |-> st, ret |-> FALSE]
        ELSE IF remainingSpendingCapacity <= 0
        THEN [st |-> st, ret |-> FALSE]
        ELSE [st |-> [st EXCEPT
                        !.balance = newBalance,
                        !.lifetimeSpent = st.lifetimeSpent + cappedAmount,
                        !.dailySpent = st.dailySpent + cappedAmount,
                        !.transactions = Prepend(transaction, st.transactions)],
              ret |-> TRUE]

\* src/store/timeBankStore.ts
resetDailyEarned(st, today) ==
    [st EXCEPT !.dailyEarned = 0, !.lastResetDate = today]

\* src/store/authStore.ts
resetDailyCounters(st, today) ==
    [st EXCEPT !.dailyEarned = 0, !.dailySpent = 0, !.lastResetDate = today]

\* src/store/timeBankStore.ts: the value is computed from the state read
\* before the reset
getRemainingDailyCapacity(st, today) ==
    [st  |-> IF st.lastResetDate # today
             THEN [st EXCEPT !.dailyEarned = 0, !.lastResetDate = today]
             ELSE st,
     ret |-> Max(DAILY_EARNING_CAP - st.dailyEarned, 0)]

\* src/store/authStore.ts
getRemainingDailyCapacityCapped(st, today) ==
    [st  |-> IF st.lastResetDate # today
             THEN [st EXCEPT !.dailyEarned = 0, !.dailySpent = 0,
                             !.lastResetDate = today]
             ELSE st,
     ret |-> Max(DAILY_EARNING_CAP - st.dailyEarned, 0)]

\* LocalTimeBankService.getRemainingDailyCapacity: today is the UTC date
serviceGetRemainingDailyCapacity(st, utcToday) ==
    [st  |-> IF st.lastResetDate # utcToday
             THEN [st EXCEPT !.dailyEarned = 0, !.lastResetDate = utcToday]
             ELSE st,
     ret |-> Max(DAILY_EARNING_CAP - st.dailyEarned, 0)]

\* mutant: a same-day updateStreak(false) also forgets the longest streak
updateStreak_ClearsLongest(st, completedToday, today) ==
    IF st.lastResetDate # today
    THEN LET newStreak == IF completedToday THEN st.currentStreak + 1 ELSE 0
             newLongestStreak == Max(st.longestStreak, newStreak)
         IN  [st EXCEPT !.dailyEarned = 0, !.dailySpent = 0,
                        !.lastResetDate = today,
                        !.currentStreak = newStreak,
                        !.longestStreak = newLongestStreak]
    ELSE IF completedToday /\ st.currentStreak = 0
    THEN [st EXCEPT !.currentStreak = 1,
                    !.longestStreak = Max(st.longestStreak, 1)]
    ELSE IF ~completedToday /\ st.currentStreak > 0
    THEN [st EXCEPT !.currentStreak = 0, !.longestStreak = 0]
    ELSE st

\* mutant: longestStreak is not brought up to the new streak
updateStreak_KeepsLongest(st, completedToday, today) ==
    IF st.lastResetDate # today
    THEN LET newStreak == IF completedToday THEN st.currentStreak + 1 ELSE 0
         IN  [st EXCEPT !.dailyEarned = 0, !.dailySpent = 0,
                        !.lastResetDate = today,
                        !.currentStreak = newStreak]
    ELSE IF completedToday /\ st.currentStreak = 0
    THEN [st EXCEPT !.currentStreak = 1]
    ELSE IF ~completedToday /\ st.currentStreak > 0
    THEN [st EXCEPT !.currentStreak = 0]
    ELSE st

\* mutant: a completion on the day of the last reset counts again
updateStreak_CountsAgain(st, completedToday, today) ==
    IF st.lastResetDate # today
    THEN LET newStreak == IF completedToday THEN st.currentStreak + 1 ELSE 0
             newLongestStreak == Max(st.longestStreak, newStreak)
         IN  [st EXCEPT !.dailyEarned = 0, !.dailySpent = 0,
                        !.lastResetDate = today,
                        !.currentStreak = newStreak,
                        !.longestStreak = newLongestStreak]
    ELSE IF completedToday
    THEN [st EXCEPT !.currentStreak = st.currentStreak + 1,
                    !.longestStreak = Max(st.longestStreak, st.currentStreak + 1)]
    ELSE IF st.currentStreak > 0
    THEN [st EXCEPT !.currentStreak = 0]
    ELSE st

updateStreak(st, completedToday, today) ==
    IF st.lastResetDate # today
    THEN LET newStreak == IF completedToday THEN st.currentStreak + 1 ELSE 0
             newLongestStreak == Max(st.longestStreak, newStreak)
         IN  [st EXCEPT !.dailyEarned = 0, !.dailySpent = 0,
                        !.lastResetDate = today,
                        !.currentStreak = newStreak,
                        !.longestStreak = newLongestStreak]
    ELSE IF completedToday /\ st.currentStreak = 0
    THEN [st EXCEPT !.currentStreak = 1,
                    !.longestStreak = Max(st.longestStreak, 1)]
    ELSE IF ~completedToday /\ st.currentStreak > 0
    THEN [st EXCEPT !.currentStreak = 0]
    ELSE st

resetStreak(st) == [st EXCEPT !.currentStreak = 0]

\* Array.prototype.slice(begin, end) for begin >= 0: a negative end counts
\* from the end of the array, an end past the array stops at its length
slice(array, begin, end) ==
    LET last == IF end < 0 THEN Max(Len(array) + end, 0)
                ELSE Min(end, Len(array))
    IN  SubSeq(array, begin + 1, last)

\* mutant: the limit is ignored
getTransactions_All(st, given, limit) == st.transactions

\* (limit = 50) => get().transactions.slice(0, limit); given tells whether
\* the caller passed a limit
getTransactions(st, given, limit) ==
    slice(st.transactions, 0, IF given THEN limit ELSE 50)

----------------------------------------------------------------------------
(* The set() calls of the operations, and the persist middleware *)

\* addBalance calls set() for the rollover and again for the credit; r is
\* what addBalance(st, ...) comes to
addBalanceSets(st, r, today) ==
    (IF st.lastResetDate # today
     THEN << [st EXCEPT !.dailyEarned = 0, !.lastResetDate = today] >>
     ELSE << >>)
    \o (IF r.ret THEN << r.st >> ELSE << >>)

\* mutant: the state is changed without a call of set()
oneSet_Skipped(done, st2) == << >>

\* the other operations call set() once, on the paths that change the state
oneSet(done, st2) == IF done THEN << st2 >> ELSE << >>

\* JSON.stringify of the state: the data fields, the functions are dropped
serialize(st) ==
    [f \in DOMAIN st |-> st[f]]

\* the wrapped set(): every state handed to set() is saved under the one
\* storage key, so the durable store holds the last of them
save(saved, sets) ==
    IF sets = << >> THEN saved ELSE << serialize(sets[Len(sets)]) >>

\* start of the application: the saved fields are laid over the initial state
rehydrate(saved, initial) ==
    IF saved = << >> THEN initial
    ELSE [f \in DOMAIN initial |->
            IF f \in DOMAIN saved[1] THEN saved[1][f] ELSE initial[f]]

----------------------------------------------------------------------------
(* The state machine *)

NoRet == [b |-> FALSE, n |-> 0]
\* no service call is under way
NoCalls == [from |-> InitialStore(0), id0 |-> 1, tasks |-> << >>]
Call(op, amount, flag) == [op |-> op, amount |-> amount, flag |-> flag]

InitWith(st, seed) ==
    /\ store = st
    /\ seedLen = seed
    /\ nextId = Len(st.transactions) + 1
    /\ call = Call("init", 0, FALSE)
    /\ ret = NoRet
    /\ writes = << >>
    /\ durable = << >>
    /\ pending = NoCalls
    /\ earnedToday = 0
    /\ rolledOn = 0
    /\ streakRun = 0
    /\ doneToday = FALSE

Init ==
    /\ variant \in {"uncapped", "capped"}
    /\ tz \in {"west", "utc", "east"}
    /\ clock \in {[day |-> 1, phase |-> p] : p \in {0, 1}}
    /\ InitWith(InitialStore(toISOStringDate(clock, tz)), 0)

\* history of rollovers: the operation reset the daily counters
Rolled(st, st2) ==
    IF st2.lastResetDate # st.lastResetDate THEN clock.day ELSE rolledOn

\* the scripted first session, if any, is over
Seeded == nextId > seedLen

AddBalanceWith(amount, source) ==
    LET r == addBalance(store, amount, source, Today, nextId)
    IN  /\ store' = r.st
        /\ ret' = [b |-> r.ret, n |-> 0]
        /\ call' = Call("addBalance", amount, FALSE)
        /\ writes' = addBalanceSets(store, r, Today)
        /\ durable' = save(durable, writes')
        /\ nextId' = IF r.ret THEN nextId + 1 ELSE nextId
        /\ earnedToday' = IF r.ret
                          THEN earnedToday + r.st.transactions[1].amount
                          ELSE earnedToday
        /\ rolledOn' = Rolled(store, r.st)
        /\ UNCHANGED <<variant, tz, seedLen, clock, streakRun, doneToday>>

DeductBalanceWith(amount, source) ==
    LET r == IF variant = "capped"
             THEN deductBalanceCapped(store, amount, source, nextId)
             ELSE deductBalance(store, amount, source, nextId)
    IN  /\ store' = r.st
        /\ ret' = [b |-> r.ret, n |-> 0]
        /\ call' = Call("deductBalance", amount, FALSE)
        /\ writes' = oneSet(r.ret, r.st)
        /\ durable' = save(durable, writes')
        /\ nextId' = IF r.ret THEN nextId + 1 ELSE nextId
        /\ UNCHANGED <<variant, tz, seedLen, clock, earnedToday,
                       rolledOn, streakRun, doneToday>>

AddBalance ==
    /\ Seeded
    /\ nextId <= seedLen + MaxTx
    /\ \E amount \in Amounts, source \in EarnSources :
            AddBalanceWith(amount, source)
    /\ UNCHANGED pending

DeductBalance ==
    /\ Seeded
    /\ nextId <= seedLen + MaxTx
    /\ \E amount \in SpendAmounts, source \in SpendSources :
            DeductBalanceWith(amount, source)
    /\ UNCHANGED pending

\* the store's actions take any number: nothing stops a caller from
\* passing zero or a negative amount
AddBalanceInvalid ==
    /\ Seeded
    /\ nextId <= seedLen + MaxTx
    /\ \E amount \in InvalidAmounts, source \in EarnSources :
            AddBalanceWith(amount, source)
    /\ UNCHANGED pending

DeductBalanceInvalid ==
    /\ Seeded
    /\ nextId <= seedLen + MaxTx
    /\ \E amount \in InvalidAmounts, source \in SpendSources :
            DeductBalanceWith(amount, source)
    /\ UNCHANGED pending

\* spends of fewer minutes
DeductBalanceSmall ==
    /\ Seeded
    /\ nextId <= seedLen + MaxTx
    /\ \E amount \in SmallSpendAmounts, source \in SpendSources :
            DeductBalanceWith(amount, source)
    /\ UNCHANGED pending

GetRemainingDailyCapacity ==
    LET r == IF variant = "capped"
             THEN getRemainingDailyCapacityCapped(store, Today)
             ELSE getRemainingDailyCapacity(store, Today)
    IN  /\ Seeded
        /\ store' = r.st
        /\ ret' = [b |-> FALSE, n |-> r.ret]
        /\ call' = Call("getRemainingDailyCapacity", 0, FALSE)
        /\ writes' = oneSet(store.lastResetDate # Today, r.st)
        /\ durable' = save(durable, writes')
        /\ rolledOn' = Rolled(store, r.st)
        /\ UNCHANGED <<variant, tz, seedLen, pending, clock, nextId, earnedToday,
                       streakRun, doneToday>>

ServiceGetRemainingDailyCapacity ==
    LET r == serviceGetRemainingDailyCapacity(store, UtcToday)
    IN  /\ Seeded
        /\ store' = r.st
        /\ ret' = [b |-> FALSE, n |-> r.ret]
        /\ call' = Call("service.getRemainingDailyCapacity", 0, FALSE)
        /\ writes' = oneSet(store.lastResetDate # UtcToday, r.st)
        /\ durable' = save(durable, writes')
        /\ rolledOn' = Rolled(store, r.st)
        /\ streakRun' = -1
        /\ UNCHANGED <<variant, tz, seedLen, pending, clock, nextId, earnedToday,
                       doneToday>>

UpdateStreak ==
    \E completedToday \in BOOLEAN :
        LET st2 == updateStreak(store, completedToday, Today)
        IN  /\ Seeded
            /\ variant = "capped"
            /\ store.currentStreak < MaxStreak
            /\ store' = st2
            /\ ret' = NoRet
            /\ call' = Call("updateStreak", 0, completedToday)
            /\ writes' = oneSet(st2 # store, st2)
            /\ durable' = save(durable, writes')
            /\ rolledOn' = Rolled(store, st2)
            /\ streakRun' = IF ~completedToday \/ streakRun = -1 THEN -1
                            ELSE IF doneToday THEN streakRun
                            ELSE streakRun + 1
            /\ doneToday' = (doneToday \/ completedToday)
            /\ UNCHANGED <<variant, tz, seedLen, pending, clock, nextId, earnedToday>>

ResetStreak ==
    /\ Seeded
    /\ variant = "capped"
    /\ store' = resetStreak(store)
    /\ ret' = NoRet
    /\ call' = Call("resetStreak", 0, FALSE)
    /\ writes' = oneSet(TRUE, store')
    /\ durable' = save(durable, writes')
    /\ streakRun' = -1
    /\ UNCHANGED <<variant, tz, seedLen, pending, clock, nextId, earnedToday,
                   rolledOn, doneToday>>

GetTransactions ==
    \E given \in BOOLEAN, limit \in Limits :
        /\ Seeded
        /\ given \/ limit = 0
        /\ ret' = [b |-> FALSE, n |-> 0,
                   l |-> getTransactions(store, given, limit)]
        /\ call' = Call("getTransactions", limit, given)
        /\ writes' = << >>
        /\ UNCHANGED <<variant, tz, seedLen, pending, clock, store, nextId, durable,
                       earnedToday, rolledOn, streakRun, doneToday>>

\* the application is closed and started again: the store is created anew
\* from the initial state and what was saved
Restart ==
    /\ Seeded
    /\ store' = rehydrate(durable, InitialStore(UtcToday))
    /\ ret' = NoRet
    /\ call' = Call("restart", 0, FALSE)
    /\ writes' = << >>
    /\ UNCHANGED <<variant, tz, seedLen, pending, clock, nextId, durable,
                   earnedToday, rolledOn, streakRun, doneToday>>

\* time passes: the second half of the day, then the next local day
Tick ==
    /\ Seeded
    /\ \/ /\ clock.phase = 0
          /\ clock' = [clock EXCEPT !.phase = 1]
          /\ UNCHANGED <<call, ret, earnedToday, streakRun, doneToday>>
       \/ /\ clock.phase = 1
          /\ clock.day < MaxDay
          /\ clock' = [day |-> clock.day + 1, phase |-> 0]
          /\ call' = Call("newDay", 0, FALSE)
          /\ ret' = NoRet
          /\ earnedToday' = 0
          /\ streakRun' = IF streakRun > 0 /\ ~doneToday THEN -1 ELSE streakRun
          /\ doneToday' = FALSE
    /\ UNCHANGED <<variant, tz, seedLen, pending, store, nextId, writes, durable,
                   rolledOn>>

Next ==
    \/ AddBalance
    \/ DeductBalance
    \/ GetRemainingDailyCapacity
    \/ ServiceGetRemainingDailyCapacity
    \/ UpdateStreak
    \/ ResetStreak
    \/ Tick

Spec == Init /\ [][Next]_vars

\* A first day of heavy use, so that the log is nearly full: one earn, then
\* spends of one minute until the log holds seedLen entries.  Only then are
\* the operations called freely.
Seed ==
    /\ nextId <= seedLen
    /\ IF nextId = 1
       THEN AddBalanceWith(200, "habit")
       ELSE DeductBalanceWith(1, "app_unlock")
    /\ UNCHANGED pending

InitLog ==
    /\ variant \in {"uncapped", "capped"}
    /\ tz = "utc"
    /\ clock \in {[day |-> 1, phase |-> p] : p \in {0, 1}}
    /\ InitWith(InitialStore(toISOStringDate(clock, tz)), LogSeed)

NextLog ==
    \/ Seed
    \/ Next

SpecLog == InitLog /\ [][NextLog]_vars

\* The build with the spending cap after an earn and a spend of one minute,
\* with spends of several sizes
InitSpend ==
    /\ variant = "capped"
    /\ tz = "utc"
    /\ clock \in {[day |-> 1, phase |-> p] : p \in {0, 1}}
    /\ InitWith(InitialStore(toISOStringDate(clock, tz)), SpendSeed)

NextSpend ==
    \/ Seed
    \/ Next
    \/ DeductBalanceSmall

SpecSpend == InitSpend /\ [][NextSpend]_vars

\* The operations and the reads of the log, on a device in the UTC zone
NextRead ==
    \/ Next
    \/ GetTransactions

\* a device whose local date is the UTC date
InitUtc ==
    /\ Init
    /\ tz = "utc"

SpecRead == InitUtc /\ [][NextRead]_vars

\* The operations and restarts of the application
NextPersist ==
    \/ Next
    \/ Restart

SpecPersist == InitUtc /\ [][NextPersist]_vars

----------------------------------------------------------------------------
(* LocalTimeBankService: asynchronous calls issued together *)

ServiceCalls ==
    << [op |-> "getBalance", amount |-> 0],
       [op |-> "addBalance", amount |-> 30],
       [op |-> "addBalance", amount |-> 200],
       [op |-> "deductBalance", amount |-> 100],
       [op |-> "getTransactions", amount |-> 0],
       [op |-> "getRemainingDailyCapacity", amount |-> 0] >>

\* the batches of n calls; the order of issue is of no account, since any
\* of the issued calls may run next
Batches(n) ==
    {pick \in [1..n -> DOMAIN ServiceCalls] :
        \A i \in 1..(n - 1) : pick[i] <= pick[i + 1]}

Res(b, n, l) == [b |-> b, n |-> n, l |-> l]

\* mutant: getRemainingDailyCapacity awaits between reading the state and
\* writing the reset
Segments_AwaitAfterRead(op) ==
    IF op = "getRemainingDailyCapacity" THEN 2 ELSE 1

\* the body of an async method runs without interruption up to an await and
\* from one await to the next: no method of the service has an await, each
\* body is one piece
Segments(op) == 1

\* LocalTimeBankService.getRemainingDailyCapacity: state is what getState()
\* returned, current is the state that setState() merges the reset into
serviceGetRemainingDailyCapacityOn(state, current, utcToday) ==
    [st  |-> IF state.lastResetDate # utcToday
             THEN [current EXCEPT !.dailyEarned = 0, !.lastResetDate = utcToday]
             ELSE current,
     ret |-> Max(DAILY_EARNING_CAP - state.dailyEarned, 0)]

\* one call of the service run from beginning to end on the state st, with
\* id the next fresh transaction id
RunCall(st, id, c) ==
    CASE c.op = "getBalance" ->
            [st |-> st, id |-> id, res |-> Res(FALSE, st.balance, << >>)]
      [] c.op = "addBalance" ->
            LET r == addBalance(st, c.amount, "habit", Today, id)
            IN  [st |-> r.st, id |-> IF r.ret THEN id + 1 ELSE id,
                 res |-> Res(r.ret, 0, << >>)]
      [] c.op = "deductBalance" ->
            LET r == IF variant = "capped"
                     THEN deductBalanceCapped(st, c.amount, "app_unlock", id)
                     ELSE deductBalance(st, c.amount, "app_unlock", id)
            IN  [st |-> r.st, id |-> IF r.ret THEN id + 1 ELSE id,
                 res |-> Res(r.ret, 0, << >>)]
      [] c.op = "getTransactions" ->
            [st |-> st, id |-> id,
             res |-> Res(FALSE, 0, getTransactions(st, FALSE, 0))]
      [] c.op = "getRemainingDailyCapacity" ->
            LET r == serviceGetRemainingDailyCapacity(st, UtcToday)
            IN  [st |-> r.st, id |-> id, res |-> Res(FALSE, r.ret, << >>)]

\* the calls of the batch run one after the other in the given order
RECURSIVE RunInOrder(_, _, _, _)
RunInOrder(st, id, calls, order) ==
    IF order = << >> THEN [st |-> st, res |-> [i \in {} |-> Res(FALSE, 0, << >>)]]
    ELSE LET first == RunCall(st, id, calls[Head(order)])
             rest == RunInOrder(first.st, first.id, calls, Tail(order))
         IN  [st |-> rest.st,
              res |-> [i \in DOMAIN rest.res \cup {Head(order)} |->
                        IF i = Head(order) THEN first.res ELSE rest.res[i]]]

Orders(n) ==
    {o \in [1..n -> 1..n] : \A i, j \in 1..n : o[i] = o[j] => i = j}

Done(t) == t.pc >= Segments(t.op)

AllDone == \A i \in DOMAIN pending.tasks : Done(pending.tasks[i])

\* a caller issues some calls of the service without awaiting any of them
Issue ==
    /\ Seeded
    /\ pending.tasks = << >>
    /\ nextId + BatchSize <= seedLen + MaxTx + 1
    /\ \E pick \in Batches(BatchSize) :
            pending' = [from |-> store, id0 |-> nextId,
                        tasks |-> [i \in 1..BatchSize |->
                                    [op |-> ServiceCalls[pick[i]].op,
                                     amount |-> ServiceCalls[pick[i]].amount,
                                     pc |-> 0,
                                     state |-> store,
                                     result |-> Res(FALSE, 0, << >>)]]]
    /\ call' = Call("issue", 0, FALSE)
    /\ ret' = NoRet
    /\ UNCHANGED <<variant, tz, seedLen, clock, store, nextId, writes,
                   durable, earnedToday, rolledOn, streakRun, doneToday>>

\* the body of one of the issued calls runs its next piece
Run ==
    \E i \in DOMAIN pending.tasks :
        LET t == pending.tasks[i]
            state == IF t.pc = 0 THEN store ELSE t.state
            last == t.pc + 1 >= Segments(t.op)
            out == IF t.op = "getRemainingDailyCapacity"
                   THEN LET r == serviceGetRemainingDailyCapacityOn(
                                     state, store, UtcToday)
                        IN  [st |-> r.st, id |-> nextId,
                             res |-> Res(FALSE, r.ret, << >>)]
                   ELSE RunCall(store, nextId, t)
        IN  /\ Seeded
            /\ ~Done(t)
            /\ pending' = [pending EXCEPT !.tasks[i] =
                              [t EXCEPT !.pc = t.pc + 1,
                                        !.state = state,
                                        !.result = IF last THEN out.res
                                                   ELSE t.result]]
            /\ call' = Call(t.op, t.amount, last)
            /\ IF last
               THEN /\ store' = out.st
                    /\ nextId' = out.id
                    /\ ret' = out.res
                    /\ writes' = IF t.op = "addBalance"
                                 THEN addBalanceSets(store,
                                        [st |-> out.st, ret |-> out.res.b],
                                        Today)
                                 ELSE oneSet(out.st # store, out.st)
                    /\ durable' = save(durable, writes')
                    /\ earnedToday' =
                            IF t.op = "addBalance" /\ out.res.b
                            THEN earnedToday + out.st.transactions[1].amount
                            ELSE earnedToday
                    /\ rolledOn' = Rolled(store, out.st)
                    /\ streakRun' = IF t.op = "getRemainingDailyCapacity"
                                    THEN -1 ELSE streakRun
               ELSE /\ ret' = NoRet
                    /\ UNCHANGED <<store, nextId, writes, durable,
                                   earnedToday, rolledOn, streakRun>>
            /\ UNCHANGED <<variant, tz, seedLen, clock, doneToday>>

\* the caller has awaited all the calls it issued
Await ==
    /\ pending.tasks # << >>
    /\ AllDone
    /\ pending' = NoCalls
    /\ call' = Call("await", 0, FALSE)
    /\ ret' = NoRet
    /\ UNCHANGED <<variant, tz, seedLen, clock, store, nextId, writes,
                   durable, earnedToday, rolledOn, streakRun, doneToday>>

\* time passes between two batches
TickIdle ==
    /\ pending.tasks = << >>
    /\ Tick

NextAsync ==
    \/ Issue
    \/ Run
    \/ Await
    \/ TickIdle

SpecAsync == Init /\ [][NextAsync]_vars

\* The operations called with any amount, positive or not
NextAny ==
    \/ Next
    \/ AddBalanceInvalid
    \/ DeductBalanceInvalid

SpecAny == InitUtc /\ [][NextAny]_vars

----------------------------------------------------------------------------
(* Audit replay *)

\* transactions.reduce((balance, txn) => balance + txn.amount, startingBalance)
RECURSIVE calculateBalance(_, _)
calculateBalance(transactions, startingBalance) ==
    IF transactions = << >> THEN startingBalance
    ELSE calculateBalance(Tail(transactions),
                          startingBalance + Head(transactions).amount)

\* the log is kept most-recent-first; the oldest k entries, oldest first
Chronological(transactions, k) ==
    [i \in 1..k |-> transactions[Len(transactions) + 1 - i]]

----------------------------------------------------------------------------
(* Properties *)

\* a step that is a call of an operation (time does not pass in it)
IsCall == clock' = clock

\* C1: in every reachable state MIN_BALANCE <= balance <= MAX_BALANCE
C1_BalanceBounds ==
    /\ MIN_BALANCE <= store.balance
    /\ store.balance <= MAX_BALANCE

\* C2: addBalance(a) with a > 0, called on the day of the last reset with
\* dailyEarned below the cap, returns true and credits exactly
\* min(a, DAILY_EARNING_CAP - dailyEarned) to balance, lifetimeEarned and
\* dailyEarned, and puts exactly one earn transaction of that amount, with
\* balanceAfter the new balance, at the front of the log
C2_EarnCreditsCapped ==
    [][ ( /\ IsCall
          /\ call'.op = "addBalance"
          /\ call'.amount > 0
          /\ store.lastResetDate = Today
          /\ store.dailyEarned < DAILY_EARNING_CAP )
        => LET c == Min(call'.amount, DAILY_EARNING_CAP - store.dailyEarned)
               old == store.transactions
               new == store'.transactions
           IN  /\ ret'.b
               /\ store'.balance = store.balance + c
               /\ store'.lifetimeEarned = store.lifetimeEarned + c
               /\ store'.dailyEarned = store.dailyEarned + c
               /\ Len(new) = Min(Len(old) + 1, LOG_LIMIT)
               /\ new[1].type = "earn"
               /\ new[1].amount = c
               /\ new[1].balanceAfter = store'.balance
               /\ \A i \in 2..Len(new) : new[i] = old[i - 1]
      ]_vars

\* an earn that was cut down to the remaining capacity on the day of the
\* last reset: the credit is below the cap and yet dailyEarned reached it
C2_Witness ==
    /\ call.op = "addBalance"
    /\ ret.b
    /\ store.transactions[1].amount < call.amount
    /\ store.transactions[1].amount < DAILY_EARNING_CAP
    /\ store.dailyEarned = DAILY_EARNING_CAP

\* C3: deductBalance(amount) with amount > balance returns false and leaves
\* balance, lifetimeSpent, dailySpent and the log unchanged
C3_NoOverspend ==
    [][ ( /\ IsCall
          /\ call'.op = "deductBalance"
          /\ call'.amount > store.balance )
        => /\ ~ret'.b
           /\ store'.balance = store.balance
           /\ store'.lifetimeSpent = store.lifetimeSpent
           /\ store'.dailySpent = store.dailySpent
           /\ store'.transactions = store.transactions
      ]_vars

C3_Witness ==
    /\ call.op = "deductBalance"
    /\ call.amount > store.balance
    /\ ~ret.b

\* C4: within one local day the amounts credited by addBalance sum to at
\* most DAILY_EARNING_CAP
C4_DailyEarnWithinCap == earnedToday <= DAILY_EARNING_CAP

\* C5: once a rollover has happened on local day D, every further operation
\* on day D leaves lastResetDate = D and does not reset the daily counters
C5_RolloverIdempotent ==
    [][ ( /\ IsCall
          /\ rolledOn = clock.day
          /\ store.lastResetDate = clock.day
          /\ call'.op \in {"addBalance", "getRemainingDailyCapacity",
                           "service.getRemainingDailyCapacity", "updateStreak"} )
        => /\ store'.lastResetDate = clock.day
           /\ store'.dailyEarned >= store.dailyEarned
           /\ store'.dailySpent >= store.dailySpent
      ]_vars

\* C6: getRemainingDailyCapacity returns max(DAILY_EARNING_CAP - dailyEarned, 0)
\* of the state it leaves
C6_RemainingAfterRollover ==
    call.op \in {"getRemainingDailyCapacity", "service.getRemainingDailyCapacity"}
        => ret.n = Max(DAILY_EARNING_CAP - store.dailyEarned, 0)

\* C7: replaying the log oldest first, adding each amount to the running
\* balance, from the balance before the oldest transaction (the initial
\* balance while nothing was evicted) reproduces every balanceAfter
C7_AuditReplay ==
    nextId <= LOG_LIMIT + 1 =>
        \A k \in 1..Len(store.transactions) :
            calculateBalance(Chronological(store.transactions, k),
                             INITIAL_TIME_BANK_STATE(0).balance)
                = store.transactions[Len(store.transactions) + 1 - k].balanceAfter

\* C8: after updateStreak(true), a second updateStreak(true) on the same
\* local day leaves currentStreak and longestStreak as they are
C8_StreakSameDayIdempotent ==
    ( /\ variant = "capped"
      /\ call.op = "updateStreak"
      /\ call.flag
      /\ doneToday )
    => LET again == updateStreak(store, TRUE, Today)
       IN  /\ again.currentStreak = store.currentStreak
           /\ again.longestStreak = store.longestStreak

\* the first of the two calls did the day's rollover and counted the day
C8_Witness ==
    /\ call.op = "updateStreak"
    /\ call.flag
    /\ doneToday
    /\ rolledOn = clock.day
    /\ clock.day > 1
    /\ store.currentStreak >= 2

\* C9: starting from currentStreak = 0, after updateStreak(true) on each of
\* n consecutive local days, with only addBalance, deductBalance and the
\* store's getRemainingDailyCapacity besides, currentStreak = n
C9_StreakCountsDays ==
    ( /\ call.op = "updateStreak"
      /\ call.flag
      /\ doneToday
      /\ streakRun >= 1 )
    => store.currentStreak = streakRun

\* C10: the log never holds more than 50 entries; a successful addBalance
\* or deductBalance puts the new transaction first, keeps the previous
\* entries behind it in their order, and drops only the oldest of 50
C10_LogBoundedNewestFirst ==
    [][ /\ Len(store'.transactions) <= LOG_LIMIT
        /\ ( /\ IsCall
             /\ call'.op \in {"addBalance", "deductBalance"}
             /\ ret'.b )
           => LET old == store.transactions
                  new == store'.transactions
              IN  /\ Len(new) = Min(Len(old) + 1, LOG_LIMIT)
                  /\ new[1].id = nextId
                  /\ \A i \in 2..Len(new) : new[i] = old[i - 1]
      ]_vars

\* the log was full and its oldest entry has been dropped
C10_Witness ==
    /\ Len(store.transactions) = LOG_LIMIT
    /\ nextId > LOG_LIMIT + 1
    /\ store.transactions[1].id = nextId - 1
    /\ store.transactions[LOG_LIMIT].id = nextId - LOG_LIMIT

\* C11: getTransactions(limit) with limit >= 0, or with no limit and then
\* limit = 50, returns the first min(limit, length) entries of the log in
\* the order of the log and changes nothing of the state or of what is saved
C11_GetTransactionsPrefix ==
    [][ ( /\ IsCall
          /\ call'.op = "getTransactions" )
        => LET limit == IF call'.flag THEN call'.amount ELSE 50
               k == Min(limit, Len(store.transactions))
           IN  /\ Len(ret'.l) = k
               /\ \A i \in 1..k : ret'.l[i] = store.transactions[i]
               /\ store' = store
               /\ durable' = durable
               /\ writes' = << >>
      ]_vars

\* a limit below the length of the log cut the result short
C11_Witness ==
    /\ call.op = "getTransactions"
    /\ call.flag
    /\ call.amount = 2
    /\ Len(store.transactions) = 3
    /\ Len(ret.l) = 2
    /\ ret.l[2] = store.transactions[2]

\* C12: a ledger created without a saved snapshot starts with balance 45,
\* lifetimeEarned, lifetimeSpent, dailyEarned, dailySpent and currentStreak
\* all 0 and an empty log, so that the whole DAILY_EARNING_CAP is available
\* to its first earn
C12_FreshLedgerZero ==
    ( /\ call.op = "init"
      /\ durable = << >> )
    => /\ store.balance = 45
       /\ store.lifetimeEarned = 0
       /\ store.lifetimeSpent = 0
       /\ store.dailyEarned = 0
       /\ store.dailySpent = 0
       /\ store.currentStreak = 0
       /\ store.transactions = << >>

\* C13: addBalance(amount) and deductBalance(amount) with amount <= 0
\* return false and change neither the balance, nor lifetimeEarned and
\* lifetimeSpent, nor the log, nor (the daily rollover apart) the daily
\* counters
C13_InvalidAmountRejected ==
    [][ ( /\ IsCall
          /\ call'.op \in {"addBalance", "deductBalance"}
          /\ call'.amount <= 0 )
        => /\ ~ret'.b
           /\ store'.balance = store.balance
           /\ store'.lifetimeEarned = store.lifetimeEarned
           /\ store'.lifetimeSpent = store.lifetimeSpent
           /\ store'.transactions = store.transactions
           /\ store.lastResetDate = Today
                => /\ store'.dailyEarned = store.dailyEarned
                   /\ store'.dailySpent = store.dailySpent
      ]_vars

\* C14: no step lowers lifetimeEarned or lifetimeSpent
C14_LifetimeMonotone ==
    [][ /\ store'.lifetimeEarned >= store.lifetimeEarned
        /\ store'.lifetimeSpent >= store.lifetimeSpent
      ]_vars

\* C15: longestStreak >= currentStreak in every reachable state, and no
\* step (updateStreak with either argument, resetStreak, a rollover, an
\* earn, a spend) lowers longestStreak
C15_LongestStreakIsMaximum ==
    /\ [](store.longestStreak >= store.currentStreak)
    /\ [][store'.longestStreak >= store.longestStreak]_vars

\* a streak of two days was lost and longestStreak still tells of it
C15_Witness ==
    /\ variant = "capped"
    /\ call.op \in {"updateStreak", "resetStreak"}
    /\ store.currentStreak = 0
    /\ store.longestStreak >= 2

\* some operation has changed the state since the ledger was created
Mutated == store # InitialStore(store.lastResetDate)

C17_Serializable ==
    ( /\ pending.tasks # << >>
      /\ AllDone )
    => \E order \in Orders(Len(pending.tasks)) :
          LET seq == RunInOrder(pending.from, pending.id0, pending.tasks, order)
          IN  /\ seq.st = store
              /\ \A i \in DOMAIN pending.tasks :
                    seq.res[i] = pending.tasks[i].result

\* a reset by getRemainingDailyCapacity and an earn, issued together on a
\* new day, have both returned
C17_Witness ==
    /\ pending.tasks # << >>
    /\ AllDone
    /\ pending.from.lastResetDate # Today
    /\ \E i, j \in DOMAIN pending.tasks :
          /\ pending.tasks[i].op = "getRemainingDailyCapacity"
          /\ pending.tasks[j].op = "addBalance"
          /\ pending.tasks[j].result.b

\* C18: when addBalance, getRemainingDailyCapacity or updateStreak finds
\* that lastResetDate is not today, the state it leaves has lastResetDate =
\* today, dailySpent = 0 and dailyEarned = 0 plus the credit of the call
\* itself: the spending of an earlier day is never kept under today's date
C18_RolloverResetsBothCounters ==
    [][ ( /\ IsCall
          /\ call'.op \in {"addBalance", "getRemainingDailyCapacity",
                            "updateStreak"}
          /\ store.lastResetDate # Today )
        => /\ store'.lastResetDate = Today
           /\ store'.dailySpent = 0
           /\ store'.dailyEarned =
                 IF call'.op = "addBalance" /\ ret'.b
                 THEN store'.transactions[1].amount
                 ELSE 0
      ]_vars

\* C19: the rollover and the addBalance that triggers it are one
\* transition: every state that a successful addBalance shows to the
\* subscribers and saves, and that has the new lastResetDate, has the
\* credit and the transaction of the call as well
C19_RolloverWithCreditAtomic ==
    ( /\ call.op = "addBalance"
      /\ ret.b )
    => \A i \in 1..Len(writes) :
          writes[i].lastResetDate = store.lastResetDate
            => /\ writes[i].balance = store.balance
               /\ writes[i].dailyEarned = store.dailyEarned
               /\ writes[i].transactions = store.transactions

\* C20: when the first operation of a new local day is addBalance(a) with
\* a > 0, the call returns true and leaves dailyEarned = min(a,
\* DAILY_EARNING_CAP), whatever dailyEarned was the day before
C20_FirstEarnOfDayFromZero ==
    [][ ( /\ IsCall
          /\ call.op = "newDay"
          /\ call'.op = "addBalance"
          /\ call'.amount > 0 )
        => /\ ret'.b
           /\ store'.dailyEarned = Min(call'.amount, DAILY_EARNING_CAP)
      ]_vars

\* C21: when dailyEarned has reached DAILY_EARNING_CAP on the day of the
\* last reset, addBalance(a) returns false for every a, positive or not,
\* calls no set() and leaves the whole state and what is saved as they are
C21_CapReachedRejects ==
    [][ ( /\ IsCall
          /\ call'.op = "addBalance"
          /\ store.lastResetDate = Today
          /\ store.dailyEarned >= DAILY_EARNING_CAP )
        => /\ ~ret'.b
           /\ store' = store
           /\ writes' = << >>
           /\ durable' = durable
      ]_vars

\* an earn was refused at the cap, after earns on that day
C21_Witness ==
    /\ call.op = "addBalance"
    /\ ~ret.b
    /\ store.lastResetDate = Today
    /\ store.dailyEarned >= DAILY_EARNING_CAP
    /\ Len(store.transactions) >= 1
    /\ writes = << >>

\* C22: in the build with the spending cap, deductBalance(a) with
\* 0 < a <= balance returns false and changes nothing when dailySpent has
\* reached DAILY_SPENDING_CAP; otherwise it returns true and deducts
\* s = min(a, DAILY_SPENDING_CAP - dailySpent): balance goes down by s,
\* lifetimeSpent and dailySpent go up by s, and the transaction recorded
\* has magnitude s and balanceAfter the new balance.  Hence dailySpent <=
\* DAILY_SPENDING_CAP in every reachable state
C22_SpendCapped ==
    /\ [](variant = "capped" => store.dailySpent <= DAILY_SPENDING_CAP)
    /\ [][ ( /\ IsCall
             /\ variant = "capped"
             /\ call'.op = "deductBalance"
             /\ 0 < call'.amount
             /\ call'.amount <= store.balance )
           => IF store.dailySpent >= DAILY_SPENDING_CAP
              THEN /\ ~ret'.b
                   /\ store' = store
              ELSE LET s == Min(call'.amount,
                               DAILY_SPENDING_CAP - store.dailySpent)
                       new == store'.transactions
                   IN  /\ ret'.b
                       /\ store'.balance = store.balance - s
                       /\ store'.lifetimeSpent = store.lifetimeSpent + s
                       /\ store'.dailySpent = store.dailySpent + s
                       /\ new[1].type = "spend"
                       /\ Abs(new[1].amount) = s
                       /\ new[1].balanceAfter = store'.balance
         ]_vars

\* a spend within the balance was refused at the spending cap, which the
\* spend before it had reached by being cut down
C22_Witness ==
    /\ variant = "capped"
    /\ call.op = "deductBalance"
    /\ ~ret.b
    /\ 0 < call.amount
    /\ call.amount <= store.balance
    /\ store.dailySpent = DAILY_SPENDING_CAP
    /\ store.transactions[1].type = "spend"
    /\ store.transactions[1].amount \notin ({1, 100} \cup SmallSpendAmounts)

\* C23: deductBalance rolls the day over like the other operations: when
\* dailySpent reached DAILY_SPENDING_CAP on an earlier local day, the first
\* operation of a later day, being deductBalance(a) with 0 < a <= balance
\* and a <= DAILY_SPENDING_CAP, returns true
C23_SpendAfterRollover ==
    [][ ( /\ IsCall
          /\ variant = "capped"
          /\ call.op = "newDay"
          /\ call'.op = "deductBalance"
          /\ store.dailySpent >= DAILY_SPENDING_CAP
          /\ 0 < call'.amount
          /\ call'.amount <= store.balance
          /\ call'.amount <= DAILY_SPENDING_CAP )
        => ret'.b
      ]_vars

\* C24: no call leaves a negative balance: from the initial balance, which
\* is not negative, after every sequence of addBalance and deductBalance
\* calls balance >= 0, and every spend in the log has balanceAfter >= 0
C24_NeverNegative ==
    /\ store.balance >= 0
    /\ \A i \in 1..Len(store.transactions) :
          store.transactions[i].type = "spend"
            => store.transactions[i].balanceAfter >= 0

\* C25: every transaction in the log follows one sign convention: amount > 0
\* for an earn or a bonus, amount < 0 for a spend or a penalty
C25_SignConvention ==
    \A i \in 1..Len(store.transactions) :
        LET t == store.transactions[i]
        IN  /\ t.type \in {"earn", "bonus"} => t.amount > 0
            /\ t.type \in {"spend", "penalty"} => t.amount < 0

\* C26: a local day without updateStreak(true) ends the streak: when the
\* stored lastResetDate is the local day of the last rollover and lies two
\* or more days back (every updateStreak call leaves lastResetDate = its
\* day, so none ran yesterday) and nothing has run yet today,
\* updateStreak(true) leaves currentStreak = 1, whatever it was
C26_MissedDayEndsStreak ==
    [][ ( /\ IsCall
          /\ variant = "capped"
          /\ call.op = "newDay"
          /\ call'.op = "updateStreak"
          /\ call'.flag
          /\ store.lastResetDate = rolledOn
          /\ Today - store.lastResetDate >= 2 )
        => store'.currentStreak = 1
      ]_vars

\* C27: on the day of the last reset (lastResetDate = today),
\* updateStreak(false) with currentStreak > 0 sets currentStreak to 0 and
\* leaves every other field of the state as it is (longestStreak, balance,
\* the daily counters, the log); with currentStreak = 0 it changes nothing
\* and calls no set()
C27_SameDayUncomplete ==
    [][ ( /\ IsCall
          /\ variant = "capped"
          /\ call'.op = "updateStreak"
          /\ ~call'.flag
          /\ store.lastResetDate = Today )
        => /\ store' = [store EXCEPT !.currentStreak = 0]
           /\ store.currentStreak = 0 => writes' = << >>
      ]_vars

\* a streak of two days was cancelled by updateStreak(false) on the day of
\* the last reset, the longest streak and the log being kept
C27_Witness ==
    /\ variant = "capped"
    /\ call.op = "updateStreak"
    /\ ~call.flag
    /\ store.lastResetDate = Today
    /\ rolledOn # Today
    /\ store.currentStreak = 0
    /\ store.longestStreak >= 2
    /\ Len(store.transactions) >= 1
    /\ Len(writes) = 1

\* what the ledger holds beyond what was earned and spent
Net(st) == st.balance - st.lifetimeEarned + st.lifetimeSpent

\* C28: balance - lifetimeEarned + lifetimeSpent is the same in every
\* reachable state: a call that changes balance changes lifetimeEarned, or
\* else lifetimeSpent, by the same magnitude, and only addBalance and
\* deductBalance change any of the three
C28_NetConstant ==
    /\ [](Net(store) = Net(InitialStore(0)))
    /\ [][ /\ store'.balance # store.balance
             => \/ /\ store'.lifetimeEarned - store.lifetimeEarned
                         = store'.balance - store.balance
                   /\ store'.lifetimeSpent = store.lifetimeSpent
                \/ /\ store'.lifetimeSpent - store.lifetimeSpent
                         = store.balance - store'.balance
                   /\ store'.lifetimeEarned = store.lifetimeEarned
           /\ ( \/ ~IsCall
                \/ call'.op \notin {"addBalance", "deductBalance"} )
             => /\ store'.balance = store.balance
                /\ store'.lifetimeEarned = store.lifetimeEarned
                /\ store'.lifetimeSpent = store.lifetimeSpent
         ]_vars

\* earned and spent on one day, then rolled over on a later day by an
\* operation that is neither an earn nor a spend
C28_Witness ==
    /\ call.op \in {"getRemainingDailyCapacity", "updateStreak",
                     "service.getRemainingDailyCapacity"}
    /\ rolledOn = Today
    /\ Today > 1
    /\ store.lifetimeEarned > InitialStore(0).lifetimeEarned
    /\ store.lifetimeSpent > InitialStore(0).lifetimeSpent

\* C29: when the log is not empty its first (newest) entry has balanceAfter
\* = balance, and each entry's balanceAfter differs from that of the next
\* older entry by the magnitude of its own amount: above it for an earn,
\* below it for a spend
C29_LogChainsToBalance ==
    LET log == store.transactions
    IN  Len(log) >= 1
          => /\ log[1].balanceAfter = store.balance
             /\ \A i \in 1..(Len(log) - 1) :
                   log[i].balanceAfter =
                       IF log[i].type = "earn"
                       THEN log[i + 1].balanceAfter + Abs(log[i].amount)
                       ELSE log[i + 1].balanceAfter - Abs(log[i].amount)

\* C30: from the initial state, where 0 <= dailyEarned <= DAILY_EARNING_CAP,
\* and with positive amounts only, 0 <= dailyEarned <= DAILY_EARNING_CAP in
\* every reachable state, and every getRemainingDailyCapacity call, of the
\* store or of the service, returns a value from 0 to DAILY_EARNING_CAP
C30_DailyEarnedInRange ==
    /\ 0 <= store.dailyEarned
    /\ store.dailyEarned <= DAILY_EARNING_CAP
    /\ call.op \in {"getRemainingDailyCapacity",
                    "service.getRemainingDailyCapacity"}
         => /\ 0 <= ret.n
            /\ ret.n <= DAILY_EARNING_CAP

\* the cap was reached by an earn cut down to the remaining capacity, and
\* getRemainingDailyCapacity returned 0
C30_Witness ==
    /\ call.op = "getRemainingDailyCapacity"
    /\ ret.n = 0
    /\ store.lastResetDate = Today
    /\ store.dailyEarned = DAILY_EARNING_CAP
    /\ Len(store.transactions) >= 1
    /\ store.transactions[1].type = "earn"
    /\ store.transactions[1].amount \notin Amounts

====
